---- MODULE Spec2Model ----
(***************************************************************************)
(* Build-event analysis (BEPAnalyzer) and change-impact computation        *)
(* (DependencyAnalyzer, select_tests) of build_tools/analysis.             *)
(*                                                                         *)
(* JSON values are tagged records: t is the Python type json.loads gives   *)
(* ("obj" dict, "list", "str", "num" int, "bool", "null" None) and v the    *)
(* payload; a dict's payload is a function from its keys to JSON values, a *)
(* list's payload a sequence of JSON values.                               *)
(***************************************************************************)
EXTENDS Integers, Sequences, FiniteSets, TLC

VARIABLES
    bep_file,       \* the lines of the BEP file handed to BEPAnalyzer
    events,         \* BEPAnalyzer.events
    pc,             \* "new", "loaded", "raised" (the constructor raised)
    result,         \* the last call on the analyzer: [op, arg, exc, value]
    changed_files,  \* the argument of select_tests / find_affected_targets
    engine,         \* the build graph and what the bazel process answers
    fpos,           \* number of changed files find_affected_targets has processed
    affected,       \* the local set "affected" of find_affected_targets
    dpc,            \* "idle", "scanning", "returned", "selected"
    test_targets    \* what find_test_targets returned to select_tests

vars == <<bep_file, events, pc, result, changed_files, engine, fpos, affected, dpc, test_targets>>

bepVars == <<bep_file, events, pc, result>>

depVars == <<changed_files, engine, fpos, affected, dpc, test_targets>>

\* Longest BEP file (in lines) the model loads.
MaxLines == 3

\* Longest list of changed files the model resolves.
MaxFiles == 3

SeqsUpTo(S, n) == UNION {[1..k -> S] : k \in 0..n}

----------------------------------------------------------------------------
(* Python values                                                            *)

Null == [t |-> "null"]

Bool(b) == [t |-> "bool", v |-> b]

Num(n) == [t |-> "num", v |-> n]

Str(s) == [t |-> "str", v |-> s]

Obj(r) == [t |-> "obj", v |-> r]

EmptyDict == Obj(<<>>)

List(q) == [t |-> "list", v |-> q]

Range(seq) == {seq[i] : i \in DOMAIN seq}

\* bool(v): None, False, 0, "", [] and {} are falsy.
Truthy(v) ==
    CASE v.t = "null" -> FALSE
      [] v.t = "bool" -> v.v
      [] v.t = "num" -> v.v # 0
      [] v.t = "str" -> v.v # ""
      [] v.t = "list" -> v.v # <<>>
      [] v.t = "obj" -> DOMAIN v.v # {}

\* s.startswith(p)
StartsWith(s, p) == Len(p) <= Len(s) /\ SubSeq(s, 1, Len(p)) = p

\* s.endswith(p)
EndsWith(s, p) == Len(p) <= Len(s) /\ SubSeq(s, Len(s) - Len(p) + 1, Len(s)) = p

\* p in s, for strings
Contains(s, p) == \E i \in 0..(Len(s) - Len(p)) : SubSeq(s, i + 1, i + Len(p)) = p

\* The exception of "k in x": None, bool and int are no containers.
InExc(x) == IF x.t \in {"obj", "str", "list"} THEN "none" ELSE "TypeError"

\* k in x, for a string k: a key of a dict, a substring of a str, an element
\* of a list (FALSE where it raises).
In(k, x) ==
    CASE x.t = "obj" -> k \in DOMAIN x.v
      [] x.t = "str" -> Contains(x.v, k)
      [] x.t = "list" -> Str(k) \in Range(x.v)
      [] OTHER -> FALSE

\* The exception of x[k] for a string k, evaluated only after "k in x" held:
\* a str or a list takes no string index.
ItemExc(x) == IF x.t = "obj" THEN "none" ELSE "TypeError"

\* The exception of x.get(...): only a dict has the method.
GetExc(x) == IF x.t = "obj" THEN "none" ELSE "AttributeError"

\* d.get(k, default) on a dict d.
Get(d, k, default) == IF k \in DOMAIN d.v THEN d.v[k] ELSE default

\* k in d, where d is a dict whenever the code goes on to read d[k]: the
\* updates below are applied to events that raise nothing.
HasKey(d, k) == d.t = "obj" /\ k \in DOMAIN d.v

\* int and bool are the JSON values Python subtracts and compares as numbers.
IsNumber(v) == v.t \in {"num", "bool"}

NumVal(v) == IF v.t = "bool" THEN (IF v.v THEN 1 ELSE 0) ELSE v.v

\* The first exception of a sequence of evaluations.
FirstExc(excs) ==
    IF \A i \in DOMAIN excs : excs[i] = "none" THEN "none"
    ELSE excs[CHOOSE i \in DOMAIN excs :
                 excs[i] # "none" /\ \A j \in 1..(i - 1) : excs[j] = "none"]

----------------------------------------------------------------------------
(* BEPAnalyzer                                                              *)

\* A line of the file: whitespace only, text json.loads rejects, or the text
\* of the JSON value json.loads returns for it.
BlankLine == [kind |-> "blank", value |-> Null]

InvalidLine == [kind |-> "invalid", value |-> Null]

JsonLine(v) == [kind |-> "json", value |-> v]

\* _load_events: blank lines are skipped, every other line is parsed and
\* appended; json.loads raises JSONDecodeError on the first invalid line.
RECURSIVE load_events(_, _)
load_events(lines, acc) ==
    IF lines = <<>> THEN [exc |-> "none", events |-> acc]
    ELSE LET line == Head(lines) IN
         IF line.kind = "blank" THEN load_events(Tail(lines), acc)
         ELSE IF line.kind = "invalid" THEN [exc |-> "JSONDecodeError", events |-> acc]
         ELSE load_events(Tail(lines), Append(acc, line.value))

BuildMetrics(total, succ, fail, time, actions, hits, remote) ==
    [total_targets |-> total, successful_targets |-> succ, failed_targets |-> fail,
     total_time_ms |-> time, action_count |-> actions, cache_hits |-> hits,
     remote_cache_hits |-> remote]

\* The exception of the 'completed' branch of extract_metrics, entered when
\* 'completed' in event: event['completed'], then completed.get.
MetricsCompletedExc(event) ==
    IF ItemExc(event) # "none" THEN ItemExc(event) ELSE GetExc(event.v.completed)

\* The exception of the 'action' branch, entered when 'action' in event:
\* event['action'], action.get, .get on primaryOutput, .startswith on the uri.
MetricsActionExc(event) ==
    IF ItemExc(event) # "none" THEN ItemExc(event)
    ELSE LET action == event.v.action IN
         IF GetExc(action) # "none" THEN GetExc(action)
         ELSE LET po == Get(action, "primaryOutput", EmptyDict) IN
              IF GetExc(po) # "none" THEN GetExc(po)
              ELSE IF Get(po, "uri", Str("")).t # "str" THEN "AttributeError"
              ELSE "none"

\* The exception of the 'finished' branch, entered when 'finished' in event:
\* event['finished'], the two "in" tests, finished['finishTimeMillis'],
\* finished.get and the subtraction.
MetricsFinishedExc(event) ==
    IF ItemExc(event) # "none" THEN ItemExc(event)
    ELSE LET finished == event.v.finished IN
         IF InExc(finished) # "none" THEN InExc(finished)
         ELSE IF In("finishTimeMillis", finished) /\ In("startTimeMillis", finished)
              THEN IF ItemExc(finished) # "none" THEN ItemExc(finished)
                   ELSE IF IsNumber(finished.v.finishTimeMillis)
                           /\ IsNumber(finished.v.startTimeMillis)
                        THEN "none" ELSE "TypeError"
              ELSE "none"

\* The exception one iteration of the loop of extract_metrics raises on event.
MetricsExc(event) ==
    IF InExc(event) # "none" THEN InExc(event)
    ELSE FirstExc(<< IF In("completed", event) THEN MetricsCompletedExc(event) ELSE "none",
                     IF In("action", event) THEN MetricsActionExc(event) ELSE "none",
                     IF In("finished", event) THEN MetricsFinishedExc(event) ELSE "none" >>)

\* 'completed' branch: successful or failed, by the truth value of success.
MetricsCompleted(m, event) ==
    IF ~HasKey(event, "completed") THEN m
    ELSE IF Truthy(Get(event.v.completed, "success", Null))
         THEN [m EXCEPT !.successful_targets = @ + 1]
         ELSE [m EXCEPT !.failed_targets = @ + 1]

\* The 'action' branch with the remote test chained by elif: a cache hit is
\* never counted as remote.
MetricsActionElif(m, event) ==
    IF ~HasKey(event, "action") THEN m
    ELSE LET action == event.v.action
             uri == Get(Get(action, "primaryOutput", EmptyDict), "uri", Str(""))
             hit == Get(action, "type", Null) = Str("CACHE_HIT")
         IN  [m EXCEPT !.action_count = @ + 1,
                       !.cache_hits = IF hit THEN @ + 1 ELSE @,
                       !.remote_cache_hits = IF ~hit /\ StartsWith(uri.v, "remote://")
                                             THEN @ + 1 ELSE @]

\* 'action' branch.
MetricsAction(m, event) ==
    IF ~HasKey(event, "action") THEN m
    ELSE LET action == event.v.action
             uri == Get(Get(action, "primaryOutput", EmptyDict), "uri", Str(""))
         IN  [m EXCEPT !.action_count = @ + 1,
                       !.cache_hits = IF Get(action, "type", Null) = Str("CACHE_HIT")
                                      THEN @ + 1 ELSE @,
                       !.remote_cache_hits = IF StartsWith(uri.v, "remote://")
                                             THEN @ + 1 ELSE @]

\* 'finished' branch: total_time is assigned only when both timestamps are there.
MetricsFinished(m, event) ==
    IF ~HasKey(event, "finished") THEN m
    ELSE LET finished == event.v.finished IN
         IF In("finishTimeMillis", finished) /\ In("startTimeMillis", finished)
         THEN [m EXCEPT !.total_time_ms = NumVal(finished.v.finishTimeMillis)
                                          - NumVal(Get(finished, "startTimeMillis", Num(0)))]
         ELSE m

\* 'configured' branch: the event may be a dict, a str or a list.
MetricsConfigured(m, event) ==
    IF In("configured", event) THEN [m EXCEPT !.total_targets = @ + 1] ELSE m

\* One iteration of the loop of extract_metrics on an event that raises nothing.
MetricsEvent(m, event) ==
    MetricsFinished(MetricsAction(MetricsCompleted(MetricsConfigured(m, event), event), event), event)

RECURSIVE MetricsLoop(_, _)
MetricsLoop(m, evs) ==
    IF evs = <<>> THEN [exc |-> "none", value |-> m]
    ELSE IF MetricsExc(Head(evs)) # "none" THEN [exc |-> MetricsExc(Head(evs)), value |-> <<>>]
    ELSE MetricsLoop(MetricsEvent(m, Head(evs)), Tail(evs))

extract_metrics(evs) == MetricsLoop(BuildMetrics(0, 0, 0, 0, 0, 0, 0), evs)

\* The exception of the condition of get_failed_targets:
\* 'aborted' in event or ('completed' in event and not event['completed'].get('success'))
FailedSignalExc(event) ==
    IF InExc(event) # "none" THEN InExc(event)
    ELSE IF In("aborted", event) \/ ~In("completed", event) THEN "none"
    ELSE IF ItemExc(event) # "none" THEN ItemExc(event)
    ELSE GetExc(event.v.completed)

\* The value of that condition, where it raises nothing.
FailedSignal(event) ==
    \/ In("aborted", event)
    \/ (HasKey(event, "completed") /\ ~Truthy(Get(event.v.completed, "success", Null)))

\* The exception of the body under that condition:
\* 'id' in event and 'targetCompleted' in event['id'], then
\* event['id']['targetCompleted'].get('label').
FailedIdExc(event) ==
    IF ~In("id", event) THEN "none"
    ELSE IF ItemExc(event) # "none" THEN ItemExc(event)
    ELSE LET id == event.v.id IN
         IF InExc(id) # "none" THEN InExc(id)
         ELSE IF ~In("targetCompleted", id) THEN "none"
         ELSE IF ItemExc(id) # "none" THEN ItemExc(id)
         ELSE GetExc(id.v.targetCompleted)

\* The exception one iteration of the loop of get_failed_targets raises.
FailedExc(event) ==
    IF FailedSignalExc(event) # "none" THEN FailedSignalExc(event)
    ELSE IF FailedSignal(event) THEN FailedIdExc(event)
    ELSE "none"

\* The scan with the aborted test left out: only failed completions report.
FailedLabelsCompletedOnly(event) ==
    IF HasKey(event, "completed") /\ ~Truthy(Get(event.v.completed, "success", Null))
    THEN IF HasKey(event, "id") /\ HasKey(event.v.id, "targetCompleted")
         THEN LET label == Get(event.v.id.v.targetCompleted, "label", Null) IN
              IF Truthy(label) THEN <<label>> ELSE <<>>
         ELSE <<>>
    ELSE <<>>

\* What one iteration appends to failed: the label, when the event is a
\* failure signal with id.targetCompleted and a truthy label.
FailedLabels(event) ==
    IF FailedSignal(event)
    THEN IF HasKey(event, "id") /\ HasKey(event.v.id, "targetCompleted")
         THEN LET label == Get(event.v.id.v.targetCompleted, "label", Null) IN
              IF Truthy(label) THEN <<label>> ELSE <<>>
         ELSE <<>>
    ELSE <<>>

RECURSIVE FailedLoop(_, _)
FailedLoop(failed, evs) ==
    IF evs = <<>> THEN [exc |-> "none", value |-> failed]
    ELSE IF FailedExc(Head(evs)) # "none" THEN [exc |-> FailedExc(Head(evs)), value |-> <<>>]
    ELSE FailedLoop(failed \o FailedLabels(Head(evs)), Tail(evs))

get_failed_targets(evs) == FailedLoop(<<>>, evs)

\* The exception one iteration of the loop of get_slow_actions raises:
\* 'action' in event, event['action'], 'actionMetrics' in action,
\* action['actionMetrics'], metrics.get, duration > threshold_ms.
SlowExc(event, threshold_ms) ==
    IF InExc(event) # "none" THEN InExc(event)
    ELSE IF ~In("action", event) THEN "none"
    ELSE IF ItemExc(event) # "none" THEN ItemExc(event)
    ELSE LET action == event.v.action IN
         IF InExc(action) # "none" THEN InExc(action)
         ELSE IF ~In("actionMetrics", action) THEN "none"
         ELSE IF ItemExc(action) # "none" THEN ItemExc(action)
         ELSE IF GetExc(action.v.actionMetrics) # "none" THEN GetExc(action.v.actionMetrics)
         ELSE IF ~IsNumber(Get(action.v.actionMetrics, "executionTimeInMs", Num(0)))
              THEN "TypeError"
         ELSE "none"

\* What one iteration appends to slow_actions.
SlowEntries(event, threshold_ms) ==
    IF HasKey(event, "action") /\ HasKey(event.v.action, "actionMetrics")
    THEN LET action == event.v.action
             duration == Get(action.v.actionMetrics, "executionTimeInMs", Num(0))
         IN  IF NumVal(duration) > threshold_ms
             THEN << [mnemonic |-> Get(action, "type", Str("Unknown")),
                      duration_ms |-> NumVal(duration),
                      target |-> Get(action, "label", Str("Unknown"))] >>
             ELSE <<>>
    ELSE <<>>

\* An ascending sort read backwards: x goes before the entries of equal key.
RECURSIVE InsertSlowBeforeEqual(_, _)
InsertSlowBeforeEqual(sortedList, x) ==
    IF sortedList = <<>> THEN <<x>>
    ELSE IF Head(sortedList).duration_ms > x.duration_ms
         THEN <<Head(sortedList)>> \o InsertSlowBeforeEqual(Tail(sortedList), x)
         ELSE <<x>> \o sortedList

\* Where sorted(key=duration_ms, reverse=True) puts x in an already sorted
\* list: after every entry whose key is not smaller (the sort is stable).
RECURSIVE InsertSlow(_, _)
InsertSlow(sortedList, x) ==
    IF sortedList = <<>> THEN <<x>>
    ELSE IF Head(sortedList).duration_ms >= x.duration_ms
         THEN <<Head(sortedList)>> \o InsertSlow(Tail(sortedList), x)
         ELSE <<x>> \o sortedList

\* sorted(slow_actions, key=lambda x: x['duration_ms'], reverse=True)
RECURSIVE SortedSlow(_, _)
SortedSlow(done, rest) ==
    IF rest = <<>> THEN done ELSE SortedSlow(InsertSlow(done, Head(rest)), Tail(rest))

RECURSIVE SlowLoop(_, _, _)
SlowLoop(slow, evs, threshold_ms) ==
    IF evs = <<>> THEN [exc |-> "none", value |-> SortedSlow(<<>>, slow)]
    ELSE IF SlowExc(Head(evs), threshold_ms) # "none"
         THEN [exc |-> SlowExc(Head(evs), threshold_ms), value |-> <<>>]
    ELSE SlowLoop(slow \o SlowEntries(Head(evs), threshold_ms), Tail(evs), threshold_ms)

get_slow_actions(evs, threshold_ms) == SlowLoop(<<>>, evs, threshold_ms)

----------------------------------------------------------------------------
(* The BEP files the analyzer is run on                                     *)

TargetId(label) == Obj([targetCompleted |-> Obj([label |-> Str(label)])])

ConfiguredEvent == Obj([configured |-> EmptyDict])

CompletedEvent(success) == Obj([completed |-> Obj([success |-> Bool(success)])])

\* protobuf JSON leaves a false flag out: a failed completion as bazel writes it
CompletedNoFlagEvent == Obj([completed |-> EmptyDict])

ActionEvent(type, uri) ==
    Obj([action |-> Obj([type |-> Str(type), primaryOutput |-> Obj([uri |-> Str(uri)])])])

BareActionEvent == Obj([action |-> EmptyDict])

FinishedEvent(start, finish) ==
    Obj([finished |-> Obj([startTimeMillis |-> Num(start), finishTimeMillis |-> Num(finish)])])

FinishedNoStartEvent(finish) == Obj([finished |-> Obj([finishTimeMillis |-> Num(finish)])])

TimedActionEvent(type, label, duration) ==
    Obj([action |-> Obj([type |-> Str(type), label |-> Str(label),
                         actionMetrics |-> Obj([executionTimeInMs |-> Num(duration)])])])

\* Lines of builds whose events are well formed: what extract_metrics counts.
MetricLines ==
    { BlankLine,
      JsonLine(ConfiguredEvent),
      JsonLine(CompletedEvent(TRUE)),
      JsonLine(CompletedEvent(FALSE)),
      JsonLine(CompletedNoFlagEvent),
      JsonLine(ActionEvent("CACHE_HIT", "remote://cas/a1")),
      JsonLine(ActionEvent("Javac", "file:///out/a1")),
      JsonLine(ActionEvent("Javac", "remote:/a1")),
      JsonLine(BareActionEvent),
      JsonLine(FinishedEvent(100, 350)),
      JsonLine(FinishedEvent(10, 20)),
      JsonLine(FinishedNoStartEvent(500)) }

\* Lines of failure reports: what get_failed_targets scans.
FailureLines ==
    { BlankLine,
      JsonLine(ConfiguredEvent),
      JsonLine(Obj([aborted |-> Obj([reason |-> Str("USER_INTERRUPTED")]), id |-> TargetId("//a:lib")])),
      JsonLine(Obj([aborted |-> EmptyDict])),
      JsonLine(Obj([aborted |-> EmptyDict, id |-> Obj([buildFinished |-> EmptyDict])])),
      JsonLine(Obj([completed |-> Obj([success |-> Bool(FALSE)]), id |-> TargetId("//b:app")])),
      JsonLine(Obj([completed |-> EmptyDict, id |-> TargetId("//a:lib")])),
      JsonLine(Obj([completed |-> Obj([success |-> Bool(TRUE)]), id |-> TargetId("//a:lib_test")])),
      JsonLine(CompletedEvent(FALSE)),
      JsonLine(Obj([completed |-> EmptyDict, id |-> Obj([targetCompleted |-> EmptyDict])])),
      JsonLine(Obj([completed |-> EmptyDict, id |-> TargetId("")])),
      JsonLine(Obj([id |-> TargetId("//c:testing")])) }

\* Lines of action reports: what get_slow_actions scans.
ActionLines ==
    { BlankLine,
      JsonLine(ConfiguredEvent),
      JsonLine(TimedActionEvent("Javac", "//a:lib", 500)),
      JsonLine(TimedActionEvent("Javac", "//a:lib", 1000)),
      JsonLine(TimedActionEvent("Javac", "//a:lib", 1500)),
      JsonLine(TimedActionEvent("TestRunner", "//a:lib_test", 1500)),
      JsonLine(TimedActionEvent("Javac", "//b:app", 2000)),
      JsonLine(ActionEvent("CACHE_HIT", "remote://cas/a1")),
      JsonLine(Obj([action |-> Obj([actionMetrics |-> EmptyDict])])),
      JsonLine(Obj([action |-> Obj([actionMetrics |-> Obj([executionTimeInMs |-> Num(2000)])])])) }

\* Lines of partial streams: events and sub-fields that are missing (the key
\* is absent) or malformed (JSON null, a string or an array where an object
\* is expected, or text that is no JSON at all).
PartialLines ==
    { BlankLine,
      InvalidLine,
      JsonLine(Null),
      JsonLine(ConfiguredEvent),
      JsonLine(Obj([completed |-> Null])),
      JsonLine(Obj([completed |-> Null, aborted |-> EmptyDict, id |-> TargetId("//a:lib")])),
      JsonLine(Obj([action |-> Null])),
      JsonLine(Obj([action |-> Obj([primaryOutput |-> Null])])),
      JsonLine(Obj([action |-> Obj([actionMetrics |-> Null])])),
      JsonLine(Obj([finished |-> Null])),
      JsonLine(Obj([aborted |-> EmptyDict, id |-> Null])),
      JsonLine(Str("hello")),
      JsonLine(Str("configured")),
      JsonLine(List(<<Str("configured"), Str("action")>>)),
      JsonLine(Obj([finished |-> Str("soon")])),
      JsonLine(Obj([action |-> Str("compile")])),
      JsonLine(Obj([aborted |-> EmptyDict, id |-> Str("targetCompleted")])),
      JsonLine(Obj([completed |-> EmptyDict, id |-> TargetId("//b:app")])),
      JsonLine(TimedActionEvent("Javac", "//b:app", 2000)) }

\* The thresholds get_slow_actions is called with (1000 is its default).
Thresholds == {-1, 1000, 1500}

NoResult == [op |-> "none", arg |-> 0, exc |-> "none", value |-> <<>>]

\* The dependency analyzer at rest: the state its variables keep in the
\* specifications of the BEP analyzer.
DepIdle ==
    /\ changed_files = <<>>
    /\ engine = <<>>
    /\ fpos = 0
    /\ affected = {}
    /\ dpc = "idle"
    /\ test_targets = {}

InitBEP(lines) ==
    /\ bep_file \in SeqsUpTo(lines, MaxLines)
    /\ events = <<>>
    /\ pc = "new"
    /\ result = NoResult
    /\ DepIdle

\* BEPAnalyzer(bep_file): __init__ and _load_events. An exception leaves no
\* analyzer to call.
Construct ==
    /\ pc = "new"
    /\ LET loaded == load_events(bep_file, <<>>) IN
       /\ events' = loaded.events
       /\ pc' = IF loaded.exc = "none" THEN "loaded" ELSE "raised"
       /\ result' = [NoResult EXCEPT !.op = "__init__", !.exc = loaded.exc]
    /\ UNCHANGED <<bep_file, depVars>>

ExtractMetrics ==
    /\ pc = "loaded"
    /\ LET r == extract_metrics(events) IN
       result' = [op |-> "extract_metrics", arg |-> 0, exc |-> r.exc, value |-> r.value]
    /\ UNCHANGED <<bep_file, events, pc, depVars>>

GetFailedTargets ==
    /\ pc = "loaded"
    /\ LET r == get_failed_targets(events) IN
       result' = [op |-> "get_failed_targets", arg |-> 0, exc |-> r.exc, value |-> r.value]
    /\ UNCHANGED <<bep_file, events, pc, depVars>>

GetSlowActions ==
    /\ pc = "loaded"
    /\ \E threshold_ms \in Thresholds :
          LET r == get_slow_actions(events, threshold_ms) IN
          result' = [op |-> "get_slow_actions", arg |-> threshold_ms,
                     exc |-> r.exc, value |-> r.value]
    /\ UNCHANGED <<bep_file, events, pc, depVars>>

NextBEP == Construct \/ ExtractMetrics \/ GetFailedTargets \/ GetSlowActions

\* The analyzer on well-formed build logs.
Spec == InitBEP(MetricLines) /\ [][NextBEP]_vars

\* The analyzer on failure reports.
SpecFailed == InitBEP(FailureLines) /\ [][NextBEP]_vars

\* The analyzer on action reports.
SpecSlow == InitBEP(ActionLines) /\ [][NextBEP]_vars

\* The analyzer on partial streams.
SpecPartial == InitBEP(PartialLines) /\ [][NextBEP]_vars

----------------------------------------------------------------------------
(* BazelQuery: the bazel process, as the analyzer sees it                   *)

Targets == {"//a:lib", "//a:lib_test", "//b:app", "//b:app_tests", "//c:_test_util", "//c:testing"}

\* <<x, y>>: target x depends directly on target y.
DepEdges ==
    { <<"//a:lib_test", "//a:lib">>, <<"//b:app", "//a:lib">>, <<"//c:testing", "//a:lib">>,
      <<"//b:app_tests", "//b:app">>, <<"//c:_test_util", "//b:app">> }

Files == {"a/Lib.java", "shared/Util.java", "b/App.java", "docs/guide.md", "README.md"}

\* What owner(file) answers: the owning targets in the order bazel prints
\* them, or a non-zero exit for a file bazel does not track.
OwnerTable ==
    [f \in Files |->
        CASE f = "a/Lib.java" -> [tracked |-> TRUE, labels |-> <<"//a:lib">>]
          [] f = "shared/Util.java" -> [tracked |-> TRUE, labels |-> <<"//a:lib", "//b:app">>]
          [] f = "b/App.java" -> [tracked |-> TRUE, labels |-> <<"//b:app">>]
          [] f = "docs/guide.md" -> [tracked |-> TRUE, labels |-> <<>>]
          [] f = "README.md" -> [tracked |-> FALSE, labels |-> <<>>]]

\* BazelQuery.query(f'owner("{file_path}")'): subprocess.run(check=True)
\* raises CalledProcessError when bazel exits non-zero.
query_owner(eng, file_path) ==
    IF eng.owners[file_path].tracked
    THEN [exc |-> "none", labels |-> eng.owners[file_path].labels]
    ELSE [exc |-> "CalledProcessError", labels |-> <<>>]

\* The answer of bazel to rdeps(universe, target, depth) over the whole
\* graph: the target and everything that reaches it in at most depth steps.
RECURSIVE RdepsWithin(_, _, _)
RdepsWithin(edges, target, depth) ==
    IF depth = 0 THEN {target}
    ELSE LET near == RdepsWithin(edges, target, depth - 1) IN
         near \cup {e[1] : e \in {d \in edges : d[2] \in near}}

\* BazelQuery.rdeps(universe, target, depth): the query
\* rdeps(universe, target, depth), which raises CalledProcessError when the
\* bazel process fails on it.
rdeps(eng, universe, target, depth) ==
    IF target \in eng.broken
    THEN [exc |-> "CalledProcessError", labels |-> {}]
    ELSE [exc |-> "none", labels |-> RdepsWithin(eng.deps, target, depth)]

----------------------------------------------------------------------------
(* DependencyAnalyzer and select_tests                                      *)

\* for owner in owners: affected.update(BazelQuery.rdeps("//...", owner, depth=1)).
\* The loop is inside the try block: a CalledProcessError of one rdeps query
\* ends the work on this file.
RECURSIVE RdepsLoop(_, _, _)
RdepsLoop(eng, owners, acc) ==
    IF owners = <<>> THEN [exc |-> "none", affected |-> acc]
    ELSE LET r == rdeps(eng, "//...", Head(owners), 1) IN
         IF r.exc # "none" THEN [exc |-> r.exc, affected |-> acc]
         ELSE RdepsLoop(eng, Tail(owners), acc \cup r.labels)

\* The try block with the owners added only after their rdeps loop.
TryFileOwnersLast(eng, file_path, acc) ==
    LET o == query_owner(eng, file_path) IN
    IF o.exc # "none" THEN [exc |-> o.exc, affected |-> acc]
    ELSE LET r == RdepsLoop(eng, o.labels, acc) IN
         IF r.exc # "none" THEN r
         ELSE [exc |-> "none", affected |-> r.affected \cup Range(o.labels)]

\* The try block of find_affected_targets for one file: what affected is when
\* the block is left, and the exception that leaves it.
TryFile(eng, file_path, acc) ==
    LET o == query_owner(eng, file_path) IN
    IF o.exc # "none" THEN [exc |-> o.exc, affected |-> acc]
    ELSE RdepsLoop(eng, o.labels, acc \cup Range(o.labels))

\* The iteration without the except clause.
ScanFileUncaught(eng, file_path, acc) == TryFile(eng, file_path, acc)

\* One iteration of the loop: the try block, and the except clause that
\* swallows CalledProcessError and continues with the next file.
ScanFile(eng, file_path, acc) ==
    LET t == TryFile(eng, file_path, acc) IN
    IF t.exc = "CalledProcessError" THEN [exc |-> "none", affected |-> t.affected] ELSE t

RECURSIVE AffectedLoop(_, _, _)
AffectedLoop(eng, files, acc) ==
    IF files = <<>> THEN [exc |-> "none", affected |-> acc]
    ELSE LET s == ScanFile(eng, Head(files), acc) IN
         IF s.exc # "none" THEN s ELSE AffectedLoop(eng, Tail(files), s.affected)

find_affected_targets(eng, files) == AffectedLoop(eng, files, {})

\* The filter with endswith('_test') in place of the substring test.
find_test_targets_suffix(targets) ==
    {target \in targets : EndsWith(target, "_test") \/ EndsWith(target, "_tests")}

find_test_targets(targets) ==
    {target \in targets : Contains(target, "_test") \/ EndsWith(target, "_tests")}

BEPIdle ==
    /\ bep_file = <<>>
    /\ events = <<>>
    /\ pc = "new"
    /\ result = NoResult

\* select_tests(changed_files) has just entered find_affected_targets.
InitDep ==
    /\ changed_files \in SeqsUpTo(Files, MaxFiles)
    /\ engine \in {[owners |-> OwnerTable, deps |-> DepEdges, broken |-> b] :
                     b \in SUBSET {"//a:lib", "//b:app"}}
    /\ fpos = 0
    /\ affected = {}
    /\ dpc = "scanning"
    /\ test_targets = {}
    /\ BEPIdle

\* One iteration of "for file_path in changed_files".
ProcessFile ==
    /\ dpc = "scanning"
    /\ fpos < Len(changed_files)
    /\ LET s == ScanFile(engine, changed_files[fpos + 1], affected) IN
       /\ affected' = s.affected
       /\ dpc' = IF s.exc = "none" THEN "scanning" ELSE "raised"
    /\ fpos' = fpos + 1
    /\ UNCHANGED <<changed_files, engine, test_targets, bepVars>>

\* return affected
ReturnAffected ==
    /\ dpc = "scanning"
    /\ fpos = Len(changed_files)
    /\ dpc' = "returned"
    /\ UNCHANGED <<changed_files, engine, fpos, affected, test_targets, bepVars>>

\* select_tests: test_targets = DependencyAnalyzer.find_test_targets(affected_targets)
SelectTests ==
    /\ dpc = "returned"
    /\ test_targets' = find_test_targets(affected)
    /\ dpc' = "selected"
    /\ UNCHANGED <<changed_files, engine, fpos, affected, bepVars>>

NextDep == ProcessFile \/ ReturnAffected \/ SelectTests

\* Test selection over the build graph.
SpecDep == InitDep /\ [][NextDep]_vars

----------------------------------------------------------------------------
(* Properties of extract_metrics                                            *)

MetricsReturned == result.op = "extract_metrics" /\ result.exc = "none"

\* C1: for every event stream the metrics extract_metrics returns satisfy
\* successful_targets + failed_targets <= total_targets.
C1_CompletedWithinTotal ==
    MetricsReturned =>
        result.value.successful_targets + result.value.failed_targets
            <= result.value.total_targets

\* The positions of the events that carry the key.
EventsWith(key) == {i \in DOMAIN events : key \in DOMAIN events[i].v}

Max(S) == CHOOSE x \in S : \A y \in S : y <= x

\* The elapsed time the last finished event of the stream states, its start
\* taken as 0 when it has none; 0 for a stream without finished event.
LastFinishedTime ==
    IF EventsWith("finished") = {} THEN 0
    ELSE LET finished == events[Max(EventsWith("finished"))].v.finished.v IN
         finished.finishTimeMillis.v
            - (IF "startTimeMillis" \in DOMAIN finished THEN finished.startTimeMillis.v ELSE 0)

\* C8: after any stream total_time_ms is finishTimeMillis - startTimeMillis of
\* the last finished event, with startTimeMillis taken as 0 when absent, and
\* 0 when the stream has no finished event.
C8_LastFinishedWins ==
    MetricsReturned => result.value.total_time_ms = LastFinishedTime

\* The counters of a metrics record, without total_time_ms.
Counters(m) ==
    <<m.total_targets, m.successful_targets, m.failed_targets, m.action_count,
      m.cache_hits, m.remote_cache_hits>>

\* The uris of the build logs that begin with remote://
RemoteUris == {"remote://cas/a1"}

SucceededAt(i) ==
    /\ "success" \in DOMAIN events[i].v.completed.v
    /\ events[i].v.completed.v.success = Bool(TRUE)

CacheHitAt(i) ==
    /\ "type" \in DOMAIN events[i].v.action.v
    /\ events[i].v.action.v.type = Str("CACHE_HIT")

RemoteAt(i) ==
    /\ "primaryOutput" \in DOMAIN events[i].v.action.v
    /\ events[i].v.action.v.primaryOutput.v.uri.v \in RemoteUris

\* The number of events of each counter's kind.
EventCounts ==
    << Cardinality(EventsWith("configured")),
       Cardinality({i \in EventsWith("completed") : SucceededAt(i)}),
       Cardinality({i \in EventsWith("completed") : ~SucceededAt(i)}),
       Cardinality(EventsWith("action")),
       Cardinality({i \in EventsWith("action") : CacheHitAt(i)}),
       Cardinality({i \in EventsWith("action") : RemoteAt(i)}) >>

Reordered(p) == [i \in DOMAIN events |-> events[p[i]]]

\* C9: every counter of extract_metrics is the number of events of its kind
\* (a completed event without success flag counts as failed), and the
\* counters are the same for every permutation of the stream.
C9_CountersOrderIndependent ==
    MetricsReturned =>
        /\ Counters(result.value) = EventCounts
        /\ \A p \in Permutations(DOMAIN events) :
              LET r == extract_metrics(Reordered(p)) IN
              r.exc = "none" /\ Counters(r.value) = Counters(result.value)

\* A stream with an action between a failed completion and its configured
\* event has been counted.
C9_Witness ==
    /\ MetricsReturned
    /\ events = <<CompletedEvent(FALSE), ActionEvent("CACHE_HIT", "remote://cas/a1"),
                  ConfiguredEvent>>
    /\ Counters(result.value) = <<1, 0, 1, 1, 1, 1>>

----------------------------------------------------------------------------
(* Properties of get_failed_targets                                         *)

\* An aborted event, or a completed event whose success flag is false
\* (protobuf JSON writes a false flag by leaving it out).
FailureSignalAt(i) ==
    \/ "aborted" \in DOMAIN events[i].v
    \/ /\ "completed" \in DOMAIN events[i].v
       /\ \/ "success" \notin DOMAIN events[i].v.completed.v
          \/ events[i].v.completed.v.success = Bool(FALSE)

\* The event carries a target-completion identifier with a non-empty label.
LabelledAt(i) ==
    /\ "id" \in DOMAIN events[i].v
    /\ "targetCompleted" \in DOMAIN events[i].v.id.v
    /\ "label" \in DOMAIN events[i].v.id.v.targetCompleted.v
    /\ events[i].v.id.v.targetCompleted.v.label # Str("")

FailedAt == {i \in DOMAIN events : FailureSignalAt(i) /\ LabelledAt(i)}

\* C10: get_failed_targets returns, in stream order and with duplicates, the
\* label of every aborted or failed-completion event that carries a
\* target-completion identifier with a non-empty label, nothing for any other
\* event, and leaves the events list as it was loaded.
C10_FailedLabelsInStreamOrder ==
    (result.op = "get_failed_targets" /\ result.exc = "none") =>
        /\ Len(result.value) = Cardinality(FailedAt)
        /\ \A i \in FailedAt :
              result.value[Cardinality({k \in FailedAt : k <= i})]
                  = events[i].v.id.v.targetCompleted.v.label
        /\ events = load_events(bep_file, <<>>).events

\* The same target reported twice (aborted, then a failed completion), after
\* a successful completion that contributes nothing.
C10_Witness ==
    /\ result.op = "get_failed_targets"
    /\ Len(events) = 3
    /\ "completed" \in DOMAIN events[1].v /\ ~FailureSignalAt(1) /\ LabelledAt(1)
    /\ "aborted" \in DOMAIN events[2].v
    /\ result.value = <<Str("//a:lib"), Str("//a:lib")>>

----------------------------------------------------------------------------
(* Properties of get_slow_actions                                           *)

\* The execution time an action event carries (0 when its metrics name none).
DurationAt(i) ==
    LET metrics == events[i].v.action.v.actionMetrics.v IN
    IF "executionTimeInMs" \in DOMAIN metrics THEN metrics.executionTimeInMs.v ELSE 0

\* The action events with execution-time metrics above the threshold.
SlowAt(t) ==
    {i \in EventsWith("action") :
        "actionMetrics" \in DOMAIN events[i].v.action.v /\ DurationAt(i) > t}

\* The place of event i in the report: after every slower action, and after
\* the equally slow ones that come before it in the stream.
SlowRank(t, i) ==
    Cardinality({k \in SlowAt(t) :
                    DurationAt(k) > DurationAt(i) \/ (DurationAt(k) = DurationAt(i) /\ k <= i)})

SlowEntryAt(i) ==
    LET action == events[i].v.action.v IN
    [mnemonic |-> IF "type" \in DOMAIN action THEN action.type ELSE Str("Unknown"),
     duration_ms |-> DurationAt(i),
     target |-> IF "label" \in DOMAIN action THEN action.label ELSE Str("Unknown")]

\* C6: get_slow_actions(t) returns exactly one entry per action event with
\* execution-time metrics and duration > t, none with duration <= t, in
\* non-increasing order of duration_ms, equal durations in stream order.
C6_SlowActionsSortedStable ==
    (result.op = "get_slow_actions" /\ result.exc = "none") =>
        LET t == result.arg IN
        /\ Len(result.value) = Cardinality(SlowAt(t))
        /\ \A i \in SlowAt(t) : result.value[SlowRank(t, i)] = SlowEntryAt(i)
        /\ \A j \in DOMAIN result.value : result.value[j].duration_ms > t
        /\ \A j \in DOMAIN result.value : \A k \in DOMAIN result.value :
              j < k => result.value[j].duration_ms >= result.value[k].duration_ms

\* Two equally slow actions ahead of a slower one in the stream: the slower
\* one is reported first, the two others in stream order.
C6_Witness ==
    /\ result.op = "get_slow_actions"
    /\ result.arg = 1000
    /\ events = <<TimedActionEvent("TestRunner", "//a:lib_test", 1500),
                  TimedActionEvent("Javac", "//a:lib", 1500),
                  TimedActionEvent("Javac", "//b:app", 2000)>>
    /\ result.value[1].target = Str("//b:app")
    /\ result.value[2].target = Str("//a:lib_test")
    /\ result.value[3].target = Str("//a:lib")

----------------------------------------------------------------------------
(* Partial streams                                                          *)

\* C2: on a loaded stream with malformed or missing events or sub-fields,
\* every call of extract_metrics, get_failed_targets and get_slow_actions
\* finishes without raising.
C2_MalformationNeverFatal == pc = "loaded" => result.exc = "none"

----------------------------------------------------------------------------
(* Properties of find_affected_targets and find_test_targets                *)

\* The changed files whose owner lookup bazel answers.
TrackedFiles == {f \in Range(changed_files) : OwnerTable[f].tracked}

OwnersOf(f) == Range(OwnerTable[f].labels)

\* The target and the targets that depend on it directly.
OneHop(target) == {target} \cup {e[1] : e \in {d \in DepEdges : d[2] = target}}

\* Owners and one-hop reverse dependents of the owners of the tracked files.
OwnersAndOneHop ==
    UNION {OwnersOf(f) \cup UNION {OneHop(o) : o \in OwnersOf(f)} : f \in TrackedFiles}

\* C3: a changed file whose owner lookup fails (file not tracked) is skipped
\* with an empty contribution, no exception escapes, and every other changed
\* file, before and after it, still contributes its owners and, where bazel
\* answers for all its owners, their reverse dependents.
C3_UntrackedFileSkipped ==
    /\ dpc # "raised"
    /\ (dpc = "returned" /\ TrackedFiles # Range(changed_files)) =>
          /\ \A f \in TrackedFiles :
                /\ OwnersOf(f) \subseteq affected
                /\ OwnersOf(f) \cap engine.broken = {} =>
                      \A o \in OwnersOf(f) : OneHop(o) \subseteq affected
          /\ affected \subseteq OwnersAndOneHop

\* An untracked file between two tracked ones: both neighbours contributed.
C3_Witness ==
    /\ dpc = "returned"
    /\ changed_files = <<"a/Lib.java", "README.md", "b/App.java">>
    /\ engine.broken = {}
    /\ affected = {"//a:lib", "//a:lib_test", "//b:app", "//c:testing",
                   "//b:app_tests", "//c:_test_util"}

\* The owners of the tracked files among the first n changed files.
OwnersUpTo(n) ==
    UNION {OwnersOf(changed_files[i]) : i \in {k \in 1..n : OwnerTable[changed_files[k]].tracked}}

\* C4: the affected set contains every owner of every processed file whose
\* owner lookup succeeded, whatever the later rdeps queries answer; it never
\* loses a member while the files are processed; the set returned is
\* find_affected_targets(F), and it is empty for the empty list.
C4_OwnersKeptAndGrowing ==
    [][ /\ affected \subseteq affected'
        /\ OwnersUpTo(fpos') \subseteq affected'
        /\ dpc' = "returned" =>
              /\ affected' = find_affected_targets(engine', changed_files').affected
              /\ OwnersUpTo(Len(changed_files')) \subseteq affected'
              /\ changed_files' = <<>> => affected' = {} ]_vars

\* The rdeps query for the first owner of a file failed: both owners are in
\* the returned set, the dependents of the second owner are not.
C4_Witness ==
    /\ dpc = "returned"
    /\ changed_files = <<"shared/Util.java">>
    /\ engine.broken = {"//a:lib"}
    /\ affected = {"//a:lib", "//b:app"}

\* C5: the set find_affected_targets returns is exactly the owners of the
\* files whose owner lookup succeeds together with the depth-1 reverse
\* dependencies of every one of those owners.
C5_ExactlyOwnersAndOneHop == dpc = "returned" => affected = OwnersAndOneHop

\* The labels of the graph that contain _test or end with _tests.
TestLabels == {"//a:lib_test", "//b:app_tests", "//c:_test_util"}

\* C7: find_test_targets(T) is exactly the members of T whose label contains
\* _test or ends with _tests, and applying it to its own result changes
\* nothing.
C7_TestFilterIdempotent ==
    dpc = "selected" =>
        /\ test_targets = affected \cap TestLabels
        /\ find_test_targets(test_targets) = test_targets

\* All three test labels selected out of a set that also holds non-tests.
C7_Witness ==
    /\ dpc = "selected"
    /\ test_targets = TestLabels
    /\ "//c:testing" \in affected
    /\ "//b:app" \in affected

====
